---- MODULE Spec2Model ----
(***************************************************************************)
(* litex-bridge: name-based resolution of LiteX CSRs against an SocInfo    *)
(* (src/src/soc_info.rs) and the CsrRo / CsrRw handles and csr_struct!     *)
(* groups built on it (src/src/csr.rs).                                    *)
(*                                                                         *)
(* Strings that the code concatenates (register names) are sequences of    *)
(* one-character strings, so that format!("{}_{}", ..) is a real           *)
(* concatenation.  A u32 is a natural number below U32Modulus; the width   *)
(* is AddrBits bits instead of 32 because TLC's integers are 32-bit signed.*)
(* Arithmetic that can leave the u32 range has the two outcomes a Rust     *)
(* build can produce: a panic (overflow checks on, the debug profile) or a *)
(* wrap modulo U32Modulus (overflow checks off, the release profile).      *)
(***************************************************************************)
EXTENDS Integers, Sequences, FiniteSets, TLC

VARIABLES soc_info, overflow_checks, bridge_mem, call, ret

vars == <<soc_info, overflow_checks, bridge_mem, call, ret>>

(***************************************************************************)
(* Bounds.                                                                 *)
(***************************************************************************)
\* Width of the model's u32, in bits (the code's is 32).
AddrBits == 5
\* Largest word count N of a handle type and largest size of a register.
MaxWords == 2

U32Modulus == 2 ^ AddrBits
U32Max == U32Modulus - 1

(***************************************************************************)
(* Results: Result<T, E> plus the panic a build with overflow checks       *)
(* raises.                                                                 *)
(***************************************************************************)
Ok(v) == [kind |-> "Ok", val |-> v]
Err(e) == [kind |-> "Err", err |-> e]
Panic == [kind |-> "Panic"]

\* csr::Error
NoCsrRegion == [tag |-> "NoCsrRegion"]
MissingCsr(csr) == [tag |-> "MissingCsr", csr |-> csr]
CsrWrongSize(csr, expected, found) ==
    [tag |-> "CsrWrongSize", csr |-> csr, expected |-> expected, found |-> found]
CsrWrongKind(csr, expected, found) ==
    [tag |-> "CsrWrongKind", csr |-> csr, expected |-> expected, found |-> found]

\* CsrKind
ReadOnly == "ReadOnly"
ReadWrite == "ReadWrite"
CsrKind == {ReadOnly, ReadWrite}

(***************************************************************************)
(* u32 arithmetic.  checks = TRUE is a build with overflow checks.         *)
(***************************************************************************)
\* A faulty variant: the subtraction saturates at 0 instead of overflowing.
U32SubSaturating(a, b, checks) ==
    IF a >= b THEN Ok(a - b) ELSE Ok(0)

\* `addr -= base` on u32.
U32Sub(a, b, checks) ==
    IF a >= b THEN Ok(a - b)
    ELSE IF checks THEN Panic
    ELSE Ok(a - b + U32Modulus)

\* `a + b` on u32.
U32Add(a, b, checks) ==
    IF a + b <= U32Max THEN Ok(a + b)
    ELSE IF checks THEN Panic
    ELSE Ok(a + b - U32Modulus)

\* u32::try_from(x).unwrap() of a usize.
U32TryFromUnwrap(x) ==
    IF x <= U32Max THEN Ok(x) ELSE Panic

(***************************************************************************)
(* Register names.                                                         *)
(***************************************************************************)
Name_foo == <<"f", "o", "o">>
Name_bar == <<"b", "a", "r">>
Name_baz == <<"b", "a", "z">>
Name_sub == <<"s", "u", "b">>
Name_foo_bar == <<"f", "o", "o", "_", "b", "a", "r">>
Name_foo_baz == <<"f", "o", "o", "_", "b", "a", "z">>
Name_foo_sub == <<"f", "o", "o", "_", "s", "u", "b">>
Name_foo_sub_bar == <<"f", "o", "o", "_", "s", "u", "b", "_", "b", "a", "r">>
Name_foo_dot_bar == <<"f", "o", "o", ".", "b", "a", "r">>

\* A faulty variant: the separator is "." instead of "_".
QualifiedNameDot(module, field_name) == module \o <<".">> \o field_name

\* format!("{}_{}", module, stringify!($field_name))
QualifiedName(module, field_name) == module \o <<"_">> \o field_name

(***************************************************************************)
(* SocInfo.  Only csr_registers and memories are read by the code modelled *)
(* here.                                                                   *)
(***************************************************************************)
\* A faulty variant: a missing "csr" region counts as a window at base 0.
SocInfo_csr_base_default(info) ==
    IF "csr" \in DOMAIN info.memories
    THEN Ok(info.memories["csr"].base)
    ELSE Ok(0)

\* SocInfo::csr_base
SocInfo_csr_base(info) ==
    IF "csr" \in DOMAIN info.memories
    THEN Ok(info.memories["csr"].base)
    ELSE Err(NoCsrRegion)

(***************************************************************************)
(* CsrGroup types.  A type is a value: a leaf handle type with its const   *)
(* parameter N, Option<T>, or a struct generated by csr_struct! with its   *)
(* ordered list of fields.                                                 *)
(***************************************************************************)
CsrRoT(N) == [tag |-> "CsrRo", n |-> N]
CsrRwT(N) == [tag |-> "CsrRw", n |-> N]
OptionT(T) == [tag |-> "Option", inner |-> T]
StructT(fields) == [tag |-> "Struct", fields |-> fields]
Field(name, ty) == [name |-> name, ty |-> ty]

\* What a resolution returns, with the keys it looked up in csr_registers,
\* in the order of the lookups.
Out(res, looked) == [res |-> res, looked |-> looked]

RECURSIVE addrs(_, _, _, _, _)
RECURSIVE csr_struct_fields(_, _, _, _, _, _)

\* A faulty variant: the kind is checked before the size.
CsrRo_addrs_kind_first(info, csr_only, module, N, checks) ==
    IF module \notin DOMAIN info.csr_registers
    THEN Out(Err(MissingCsr(module)), <<module>>)
    ELSE LET reg == info.csr_registers[module]
             base == SocInfo_csr_base(info)
         IN  Out(IF reg.kind # ReadOnly
                 THEN Err(CsrWrongKind(module, ReadOnly, reg.kind))
                 ELSE IF reg.size # N
                 THEN Err(CsrWrongSize(module, N, reg.size))
                 ELSE IF ~csr_only THEN Ok(reg.addr)
                 ELSE IF base.kind = "Err" THEN base
                 ELSE U32Sub(reg.addr, base.val, checks),
                 <<module>>)

\* <CsrRo<N> as CsrGroup>::addrs
CsrRo_addrs(info, csr_only, module, N, checks) ==
    IF module \notin DOMAIN info.csr_registers
    THEN Out(Err(MissingCsr(module)), <<module>>)
    ELSE LET reg == info.csr_registers[module]
             expected_size == U32TryFromUnwrap(N)
             base == SocInfo_csr_base(info)
         IN  Out(IF expected_size.kind = "Panic" THEN Panic
                 ELSE IF reg.size # expected_size.val
                 THEN Err(CsrWrongSize(module, expected_size.val, reg.size))
                 ELSE IF reg.kind # ReadOnly
                 THEN Err(CsrWrongKind(module, ReadOnly, reg.kind))
                 ELSE IF ~csr_only THEN Ok(reg.addr)
                 ELSE IF base.kind = "Err" THEN base
                 ELSE U32Sub(reg.addr, base.val, checks),
                 <<module>>)

\* <CsrRw<N> as CsrGroup>::addrs
CsrRw_addrs(info, csr_only, module, N, checks) ==
    IF module \notin DOMAIN info.csr_registers
    THEN Out(Err(MissingCsr(module)), <<module>>)
    ELSE LET reg == info.csr_registers[module]
             expected_size == U32TryFromUnwrap(N)
             base == SocInfo_csr_base(info)
         IN  Out(IF expected_size.kind = "Panic" THEN Panic
                 ELSE IF reg.size # expected_size.val
                 THEN Err(CsrWrongSize(module, expected_size.val, reg.size))
                 ELSE IF reg.kind # ReadWrite
                 THEN Err(CsrWrongKind(module, ReadWrite, reg.kind))
                 ELSE IF ~csr_only THEN Ok(reg.addr)
                 ELSE IF base.kind = "Err" THEN base
                 ELSE U32Sub(reg.addr, base.val, checks),
                 <<module>>)

\* A faulty variant: every error of the inner resolution is turned into None.
Option_addrs_any_error(T, info, csr_json, module, checks) ==
    LET r == addrs(T, info, csr_json, module, checks)
    IN  IF r.res.kind = "Ok" THEN Out(Ok(<<r.res.val>>), r.looked)
        ELSE IF r.res.kind = "Err" THEN Out(Ok(<<>>), r.looked)
        ELSE r

\* <Option<T> as CsrGroup>::addrs.  Some(x) is <<x>>, None is <<>>.
Option_addrs(T, info, csr_json, module, checks) ==
    LET r == addrs(T, info, csr_json, module, checks)
    IN  IF r.res.kind = "Ok" THEN Out(Ok(<<r.res.val>>), r.looked)
        ELSE IF r.res.kind = "Err" /\ r.res.err.tag = "MissingCsr"
        THEN Out(Ok(<<>>), r.looked)
        ELSE r

\* The fields i.. of the struct expression of the generated addrs: each
\* field's addrs(..)? in the declared order, the first failure returning.
csr_struct_fields(fields, i, info, csr_only, module, checks) ==
    IF i > Len(fields) THEN Out(Ok(<<>>), <<>>)
    ELSE LET r == addrs(fields[i].ty, info, csr_only,
                        QualifiedName(module, fields[i].name), checks)
         IN  IF r.res.kind # "Ok" THEN r
             ELSE LET rest == csr_struct_fields(fields, i + 1, info, csr_only,
                                                module, checks)
                  IN  IF rest.res.kind # "Ok"
                      THEN Out(rest.res, r.looked \o rest.looked)
                      ELSE Out(Ok(<<r.res.val>> \o rest.res.val),
                               r.looked \o rest.looked)

RECURSIVE csr_struct_fields_last(_, _, _, _, _, _)
\* The fields i.. resolved to the end, the last failure returning.
csr_struct_fields_last(fields, i, info, csr_only, module, checks) ==
    IF i > Len(fields) THEN Out(Ok(<<>>), <<>>)
    ELSE LET r == addrs(fields[i].ty, info, csr_only,
                        QualifiedName(module, fields[i].name), checks)
             rest == csr_struct_fields_last(fields, i + 1, info, csr_only,
                                            module, checks)
         IN  IF rest.res.kind # "Ok"
             THEN Out(rest.res, r.looked \o rest.looked)
             ELSE IF r.res.kind # "Ok"
             THEN Out(r.res, r.looked \o rest.looked)
             ELSE Out(Ok(<<r.res.val>> \o rest.res.val),
                      r.looked \o rest.looked)

\* A faulty variant: every field is resolved and the last failure is returned.
csr_struct_addrs_last_error(fields, info, csr_only, module, checks) ==
    csr_struct_fields_last(fields, 1, info, csr_only, module, checks)

\* csr_struct!: the generated <$name as CsrGroup>::addrs.  The Addrs value
\* $name<(), ..> is the tuple of its fields' Addrs, in the declared order.
csr_struct_addrs(fields, info, csr_only, module, checks) ==
    csr_struct_fields(fields, 1, info, csr_only, module, checks)

\* <T as CsrGroup>::addrs, by the type T.
addrs(T, info, csr_only, module, checks) ==
    CASE T.tag = "CsrRo" -> CsrRo_addrs(info, csr_only, module, T.n, checks)
      [] T.tag = "CsrRw" -> CsrRw_addrs(info, csr_only, module, T.n, checks)
      [] T.tag = "Option" -> Option_addrs(T.inner, info, csr_only, module, checks)
      [] T.tag = "Struct" -> csr_struct_addrs(T.fields, info, csr_only, module, checks)

(***************************************************************************)
(* The SocInfo values of the model.  Each of the three registers a group   *)
(* below can name is absent or present with any size in 1..MaxWords and    *)
(* either kind; "foo.bar" and "bar" are present or absent together.  Every *)
(* register has its own address, so an address tells which key was read.   *)
(***************************************************************************)
RealKeys == {Name_foo_bar, Name_foo_baz, Name_foo_sub_bar}
DecoyKeys == {Name_foo_dot_bar, Name_bar}

KeyAddr(k) ==
    CASE k = Name_foo_sub_bar -> 4
      [] k = Name_foo_bar -> 8
      [] k = Name_foo_baz -> 16
      [] k = Name_foo_dot_bar -> 20
      [] k = Name_bar -> 24

RegVariants ==
    {[present |-> FALSE, size |-> 1, kind |-> ReadOnly]}
    \cup [present : {TRUE}, size : 1..MaxWords, kind : CsrKind]

MemoryRegion(base, size, kind) == [base |-> base, size |-> size, kind |-> kind]

MemoriesChoices ==
    { [r \in {"main_ram"} |-> MemoryRegion(0, 8, "cached")],
      [r \in {"main_ram", "csr"} |->
          IF r = "csr" THEN MemoryRegion(8, 16, "io")
          ELSE MemoryRegion(0, 8, "cached")],
      [r \in {"csr"} |-> MemoryRegion(16, 8, "io")] }

SocInfoOf(choice, decoys, memories) ==
    [csr_registers |->
        [k \in {r \in RealKeys : choice[r].present}
               \cup (IF decoys THEN DecoyKeys ELSE {}) |->
            IF k \in RealKeys
            THEN [addr |-> KeyAddr(k), size |-> choice[k].size,
                  kind |-> choice[k].kind]
            ELSE [addr |-> KeyAddr(k), size |-> 1, kind |-> ReadOnly]],
     memories |-> memories]

SocInfos ==
    {SocInfoOf(choice, decoys, memories) :
        choice \in [RealKeys -> RegVariants],
        decoys \in BOOLEAN,
        memories \in MemoriesChoices}

(***************************************************************************)
(* The group types of the model: the leaf handle types and instances of    *)
(* csr_struct!.                                                            *)
(***************************************************************************)
LeafTypes == {CsrRoT(n) : n \in 1..MaxWords} \cup {CsrRwT(n) : n \in 1..MaxWords}

\* csr_struct! { struct Sub<'a> { bar: CsrRo<'a, 1> } }
SubT == StructT(<<Field(Name_bar, CsrRoT(1))>>)

StructTypes ==
    { \* struct Foo { bar: CsrRo<1>, baz: CsrRw<2> }
      StructT(<<Field(Name_bar, CsrRoT(1)), Field(Name_baz, CsrRwT(2))>>),
      \* struct Foo { bar: Option<CsrRo<1>>, baz: CsrRw<2> }
      StructT(<<Field(Name_bar, OptionT(CsrRoT(1))), Field(Name_baz, CsrRwT(2))>>),
      \* struct Foo { bar: CsrRo<1>, baz: Option<CsrRw<2>> }
      StructT(<<Field(Name_bar, CsrRoT(1)), Field(Name_baz, OptionT(CsrRwT(2)))>>),
      \* struct Foo { sub: Sub, baz: CsrRw<2> }
      StructT(<<Field(Name_sub, SubT), Field(Name_baz, CsrRwT(2))>>),
      \* struct Foo { baz: CsrRw<2>, sub: Option<Sub>, bar: CsrRo<1> }
      StructT(<<Field(Name_baz, CsrRwT(2)), Field(Name_sub, OptionT(SubT)),
                Field(Name_bar, CsrRoT(1))>>) }

NoCall == [op |-> "none"]
NoRet == [res |-> [kind |-> "None"]]

InitResolve ==
    /\ soc_info \in SocInfos
    /\ overflow_checks \in BOOLEAN
    /\ bridge_mem = <<>>
    /\ call = NoCall
    /\ ret = NoRet

\* Resolution reads soc_info and changes nothing, so a behaviour makes one
\* call: a second call would start from the same soc_info.
AddrsCall(T, csr_only, module) ==
    [op |-> "addrs", T |-> T, csr_only |-> csr_only, module |-> module]

\* CsrRo::<N>::addrs(&soc_info, csr_only, module)
CallCsrRoAddrs ==
    \E n \in 1..MaxWords, csr_only \in BOOLEAN, module \in RealKeys :
        /\ call = NoCall
        /\ call' = AddrsCall(CsrRoT(n), csr_only, module)
        /\ ret' = CsrRo_addrs(soc_info, csr_only, module, n, overflow_checks)
        /\ UNCHANGED <<soc_info, overflow_checks, bridge_mem>>

\* CsrRw::<N>::addrs(&soc_info, csr_only, module)
CallCsrRwAddrs ==
    \E n \in 1..MaxWords, csr_only \in BOOLEAN, module \in RealKeys :
        /\ call = NoCall
        /\ call' = AddrsCall(CsrRwT(n), csr_only, module)
        /\ ret' = CsrRw_addrs(soc_info, csr_only, module, n, overflow_checks)
        /\ UNCHANGED <<soc_info, overflow_checks, bridge_mem>>

\* Option::<T>::addrs(&soc_info, csr_only, module), T a leaf or Sub
CallOptionAddrs ==
    \E T \in LeafTypes \cup {SubT}, csr_only \in BOOLEAN :
      \E module \in IF T = SubT THEN {Name_foo_sub} ELSE RealKeys :
        /\ call = NoCall
        /\ call' = AddrsCall(OptionT(T), csr_only, module)
        /\ ret' = Option_addrs(T, soc_info, csr_only, module, overflow_checks)
        /\ UNCHANGED <<soc_info, overflow_checks, bridge_mem>>

\* Foo::addrs(&soc_info, csr_only, "foo"), Foo a csr_struct! type
CallStructAddrs ==
    \E T \in StructTypes, csr_only \in BOOLEAN :
        /\ call = NoCall
        /\ call' = AddrsCall(T, csr_only, Name_foo)
        /\ ret' = csr_struct_addrs(T.fields, soc_info, csr_only, Name_foo, overflow_checks)
        /\ UNCHANGED <<soc_info, overflow_checks, bridge_mem>>

NextResolve ==
    \/ CallCsrRoAddrs
    \/ CallCsrRwAddrs
    \/ CallOptionAddrs
    \/ CallStructAddrs

SpecResolve == InitResolve /\ [][NextResolve]_vars

(***************************************************************************)
(* Properties of resolution.  They speak of the call a state records and   *)
(* of what it returned.                                                    *)
(***************************************************************************)
\* Equality of two results, their tags compared first.
SameRes(a, b) ==
    /\ a.kind = b.kind
    /\ a.kind = "Ok" => a.val = b.val
    /\ a.kind = "Err" => (a.err.tag = b.err.tag /\ a.err = b.err)

IsErr(r, tag) == r.kind = "Err" /\ r.err.tag = tag

Registers == soc_info.csr_registers
LeafCall == call.op = "addrs" /\ call.T.tag \in {"CsrRo", "CsrRw"}
OptionCall == call.op = "addrs" /\ call.T.tag = "Option"
StructCall == call.op = "addrs" /\ call.T.tag = "Struct"
ExpectedKind(T) == IF T.tag = "CsrRo" THEN ReadOnly ELSE ReadWrite
Present == call.module \in DOMAIN Registers
Descriptor == Registers[call.module]
SizeMatches == Present /\ Descriptor.size = call.T.n
KindMatches == Present /\ Descriptor.kind = ExpectedKind(call.T)
Matches == SizeMatches /\ KindMatches
HasCsrRegion == "csr" \in DOMAIN soc_info.memories
WindowBase == soc_info.memories["csr"].base

\* C1: a leaf resolution of a present register with the matching
\* word count and kind succeeds, with the descriptor's address when not
\* window-relative and with the address minus the "csr" base when
\* window-relative and a "csr" region exists.
C1_ResolveMatching ==
    (LeafCall /\ Matches) =>
        /\ ~call.csr_only => SameRes(ret.res, Ok(Descriptor.addr))
        /\ (call.csr_only /\ HasCsrRegion) =>
               /\ ret.res.kind = "Ok"
               /\ ret.res.val = Descriptor.addr - WindowBase

\* What holds of C1's case: the same, the window-relative case for a
\* descriptor whose address is not below the "csr" base.
C1_WhenNotBelowBase ==
    (LeafCall /\ Matches) =>
        /\ ~call.csr_only => SameRes(ret.res, Ok(Descriptor.addr))
        /\ (call.csr_only /\ HasCsrRegion /\ Descriptor.addr >= WindowBase) =>
               SameRes(ret.res, Ok(Descriptor.addr - WindowBase))

C1_WhenNotBelowBase_Witness ==
    /\ LeafCall /\ Matches /\ call.T.tag = "CsrRw"
    /\ call.csr_only /\ HasCsrRegion
    /\ WindowBase > 0 /\ Descriptor.addr > WindowBase
    /\ SameRes(ret.res, Ok(Descriptor.addr - WindowBase))

\* C2: a leaf resolution reports the first failing check of existence,
\* size, kind: an absent name gives MissingCsr with the name; a present
\* register of another size gives CsrWrongSize with the expected and the
\* found size, whatever its kind; CsrWrongKind comes only for a present
\* register of the expected size.
C2_ValidationOrder ==
    LeafCall =>
        /\ ~Present => SameRes(ret.res, Err(MissingCsr(call.module)))
        /\ (Present /\ ~SizeMatches) =>
               SameRes(ret.res,
                       Err(CsrWrongSize(call.module, call.T.n, Descriptor.size)))
        /\ IsErr(ret.res, "CsrWrongKind") =>
               /\ SizeMatches /\ ~KindMatches
               /\ ret.res.err = CsrWrongKind(call.module, ExpectedKind(call.T),
                                             Descriptor.kind)
        /\ (SizeMatches /\ ~KindMatches) => IsErr(ret.res, "CsrWrongKind")

C2_Witness ==
    /\ LeafCall /\ Present /\ ~SizeMatches /\ ~KindMatches
    /\ IsErr(ret.res, "CsrWrongSize")
    /\ ret.res.err.found = Descriptor.size

\* C3 as stated: a window-relative leaf resolution against metadata with no
\* "csr" region fails with NoCsrRegion whatever the register's state.
C3_AsStated ==
    (LeafCall /\ call.csr_only /\ ~HasCsrRegion) =>
        IsErr(ret.res, "NoCsrRegion")

\* C3, amended: with no "csr" region, a window-relative leaf resolution
\* fails with NoCsrRegion when the register is present with the expected
\* size and kind, and with MissingCsr, CsrWrongSize or CsrWrongKind when it
\* is not.
C3_NoCsrRegion ==
    (LeafCall /\ call.csr_only /\ ~HasCsrRegion) =>
        /\ Matches => IsErr(ret.res, "NoCsrRegion")
        /\ ~Matches =>
               /\ ret.res.kind = "Err"
               /\ ret.res.err.tag \in {"MissingCsr", "CsrWrongSize", "CsrWrongKind"}

C3_Witness ==
    /\ LeafCall /\ call.csr_only /\ ~HasCsrRegion /\ Matches
    /\ IsErr(ret.res, "NoCsrRegion")

\* C10: for a present, matching register and an existing "csr" region, the
\* window-relative offset is address - base when address >= base; when
\* address < base no resolution error is returned: the call panics (overflow
\* checks) or returns address - base + 2^width, which exceeds the address.
C10_UnguardedSubtraction ==
    (LeafCall /\ Matches /\ call.csr_only /\ HasCsrRegion) =>
        /\ Descriptor.addr >= WindowBase =>
               /\ ret.res.kind = "Ok"
               /\ ret.res.val + WindowBase = Descriptor.addr
        /\ Descriptor.addr < WindowBase =>
               /\ ret.res.kind # "Err"
               /\ overflow_checks => ret.res.kind = "Panic"
               /\ ~overflow_checks =>
                      /\ ret.res.kind = "Ok"
                      /\ ret.res.val = Descriptor.addr - WindowBase + U32Modulus
        /\ (ret.res.kind = "Ok" /\ ret.res.val <= Descriptor.addr) =>
               Descriptor.addr >= WindowBase

C10_Witness ==
    /\ LeafCall /\ Matches /\ call.csr_only /\ HasCsrRegion
    /\ Descriptor.addr < WindowBase
    /\ ~overflow_checks
    /\ ret.res.kind = "Ok"
    /\ ret.res.val > Descriptor.addr

(***************************************************************************)
(* Properties of Option<T> and of csr_struct! groups.                      *)
(***************************************************************************)
\* The result of resolving member i of the struct of the recorded call on
\* its own, under the name the group gives it.
Member(i) ==
    addrs(call.T.fields[i].ty, soc_info, call.csr_only,
          call.module \o <<"_">> \o call.T.fields[i].name, overflow_checks).res

\* The result of resolving what an optional member wraps.
Underlying(i) ==
    addrs(call.T.fields[i].ty.inner, soc_info, call.csr_only,
          call.module \o <<"_">> \o call.T.fields[i].name, overflow_checks).res

IsOptional(i) == call.T.fields[i].ty.tag = "Option"

RemoveAt(seq, i) == [j \in 1..(Len(seq) - 1) |-> IF j < i THEN seq[j] ELSE seq[j + 1]]
InsertAt(seq, i, x) ==
    [j \in 1..(Len(seq) + 1) |->
        IF j < i THEN seq[j] ELSE IF j = i THEN x ELSE seq[j - 1]]

\* The recorded group resolved without its member i.
Without(i) ==
    addrs(StructT(RemoveAt(call.T.fields, i)), soc_info, call.csr_only,
          call.module, overflow_checks).res

\* C4: an optional resolution is absent exactly when what it wraps fails
\* with MissingCsr, is present with the wrapped address when that succeeds,
\* and fails with the same error when that fails with CsrWrongSize,
\* CsrWrongKind or NoCsrRegion; a group with such an absent member resolves
\* as the group without it does, the member marked absent in its place; a
\* group with an optional member failing otherwise does not succeed.
C4_OptionalAbsorbsMissing ==
    /\ OptionCall =>
          LET u == addrs(call.T.inner, soc_info, call.csr_only, call.module,
                         overflow_checks).res
          IN  /\ (ret.res.kind = "Ok" /\ ret.res.val = <<>>) <=> IsErr(u, "MissingCsr")
              /\ u.kind = "Ok" => SameRes(ret.res, Ok(<<u.val>>))
              /\ (u.kind = "Err" /\ ~IsErr(u, "MissingCsr")) =>
                     /\ u.err.tag \in {"CsrWrongSize", "CsrWrongKind", "NoCsrRegion"}
                     /\ SameRes(ret.res, u)
    /\ StructCall =>
          \A i \in 1..Len(call.T.fields) :
              IsOptional(i) =>
                  /\ IsErr(Underlying(i), "MissingCsr") =>
                        LET w == Without(i)
                        IN  IF w.kind = "Ok"
                            THEN SameRes(ret.res, Ok(InsertAt(w.val, i, <<>>)))
                            ELSE SameRes(ret.res, w)
                  /\ (Underlying(i).kind = "Err"
                        /\ ~IsErr(Underlying(i), "MissingCsr")) =>
                        ret.res.kind # "Ok"
                  /\ (ret.res.kind = "Ok" /\ Underlying(i).kind = "Ok") =>
                        ret.res.val[i] = <<Underlying(i).val>>

C4_Witness ==
    /\ StructCall
    /\ Len(call.T.fields) = 3
    /\ IsOptional(2)
    /\ IsErr(Underlying(2), "MissingCsr")
    /\ ret.res.kind = "Ok"
    /\ ret.res.val[2] = <<>>
    /\ ret.res.val[1] = Registers[Name_foo_baz].addr

\* The field-name paths of the leaves of a type, in the declared order.
RECURSIVE LeafPaths(_)
RECURSIVE FieldPaths(_, _)
FieldPaths(fields, i) ==
    IF i > Len(fields) THEN <<>>
    ELSE LET sub == LeafPaths(fields[i].ty)
         IN  [j \in 1..Len(sub) |-> <<fields[i].name>> \o sub[j]]
             \o FieldPaths(fields, i + 1)
LeafPaths(T) ==
    CASE T.tag \in {"CsrRo", "CsrRw"} -> << <<>> >>
      [] T.tag = "Option" -> LeafPaths(T.inner)
      [] T.tag = "Struct" -> FieldPaths(T.fields, 1)

\* A prefix followed by the names of a path, every name after a "_".
RECURSIVE JoinPath(_, _)
JoinPath(prefix, path) ==
    IF path = <<>> THEN prefix
    ELSE JoinPath(prefix \o <<"_">> \o Head(path), Tail(path))

\* The metadata keys of the leaves of the recorded call's type.
LeafKeys ==
    LET paths == LeafPaths(call.T)
    IN  [j \in 1..Len(paths) |-> JoinPath(call.module, paths[j])]

\* s is t with some elements left out.
RECURSIVE IsSubsequence(_, _)
IsSubsequence(s, t) ==
    IF s = <<>> THEN TRUE
    ELSE IF t = <<>> THEN FALSE
    ELSE IF Head(s) = Head(t) THEN IsSubsequence(Tail(s), Tail(t))
    ELSE IsSubsequence(s, Tail(t))

\* C6: every key a resolution looks up in csr_registers is the prefix it
\* was called with followed by "_" and a field name for every group member
\* on the way down to the leaf; a leaf resolved directly looks up the given
\* name itself; the keys are looked up in the declared order, the first
\* leaf's key always, and all of them when the resolution succeeds with
\* every key present.
C6_QualifiedNaming ==
    call.op = "addrs" =>
        /\ IsSubsequence(ret.looked, LeafKeys)
        /\ ret.looked # <<>> /\ ret.looked[1] = LeafKeys[1]
        /\ call.T.tag \in {"CsrRo", "CsrRw"} => ret.looked = <<call.module>>
        /\ (ret.res.kind = "Ok"
              /\ \A j \in 1..Len(LeafKeys) : LeafKeys[j] \in DOMAIN Registers) =>
               ret.looked = LeafKeys
        /\ IsErr(ret.res, "MissingCsr") =>
               /\ ret.res.err.csr = ret.looked[Len(ret.looked)]
               /\ ret.res.err.csr \notin DOMAIN Registers

C6_Witness ==
    /\ StructCall
    /\ Len(call.T.fields) = 3
    /\ DecoyKeys \subseteq DOMAIN Registers
    /\ ret.res.kind = "Ok"
    /\ ret.looked = <<Name_foo_baz, Name_foo_sub_bar, Name_foo_bar>>
    /\ ret.res.val[2] = <<(<<KeyAddr(Name_foo_sub_bar)>>)>>

\* C9: a group resolution fails with the result of its first member, in
\* the declared order, that does not resolve, whatever the later members
\* do; it succeeds only when every member resolves, and then holds every
\* member's resolved address (or absent marker) at the member's position.
C9_FirstFailureWins ==
    StructCall =>
        LET n == Len(call.T.fields)
            failing == {i \in 1..n : Member(i).kind # "Ok"}
        IN  IF failing = {}
            THEN /\ ret.res.kind = "Ok"
                 /\ Len(ret.res.val) = n
                 /\ \A i \in 1..n : ret.res.val[i] = Member(i).val
            ELSE LET first == CHOOSE i \in failing : \A j \in failing : i <= j
                 IN  SameRes(ret.res, Member(first))

C9_Witness ==
    /\ StructCall
    /\ \E i, j \in 1..Len(call.T.fields) :
          /\ i < j
          /\ Member(i).kind = "Err" /\ Member(j).kind = "Err"
          /\ Member(i).err.tag # Member(j).err.tag
          /\ SameRes(ret.res, Member(i))

(***************************************************************************)
(* The bridge and the handles.  bridge_mem is what the device behind the   *)
(* bridge holds, a word per word-aligned address.  A bridge call fails or  *)
(* not as its caller's input says; a failed poke leaves the device as it   *)
(* was.                                                                    *)
(***************************************************************************)
DeviceAddrs == {a \in 0..U32Max : a % 4 = 0}
Words == {0, 1}

\* BridgeError, with the address of the call that failed.
BridgeError(addr) == [tag |-> "BridgeError", addr |-> addr]

\* Bridge::peek
BridgePeek(mem, addr, fails) ==
    IF fails THEN Err(BridgeError(addr)) ELSE Ok(mem[addr])

\* Bridge::poke
BridgePoke(mem, addr, value, fails) ==
    IF fails THEN [res |-> Err(BridgeError(addr)), mem |-> mem]
    ELSE [res |-> Ok(<<>>), mem |-> [mem EXCEPT ![addr] = value]]

\* CsrRo::backed_by / CsrRw::backed_by: the handle of type T at the resolved offset.
backed_by(T, resolved) == [T |-> T, offset |-> resolved]

PeekOp(addr) == [op |-> "peek", addr |-> addr]
PokeOp(addr, value) == [op |-> "poke", addr |-> addr, value |-> value]

\* What a read or a write returns, with the bridge calls it issued, in
\* their order, and the device after it.
IoOut(res, log, mem) == [res |-> res, log |-> log, mem |-> mem]

\* The loop of read(), from index i on:
\*   result[i] = self.bridge.peek(self.offset + u32::try_from(4 * i).unwrap())?
\* fail_at is the index whose peek fails (N: none does).
RECURSIVE read_words(_, _, _, _, _, _, _, _)
read_words(mem, offset, N, i, result, log, fail_at, checks) ==
    IF i >= N THEN IoOut(Ok(result), log, mem)
    ELSE LET off == U32TryFromUnwrap(4 * i)
             addr == U32Add(offset, off.val, checks)
         IN  IF off.kind = "Panic" \/ addr.kind = "Panic"
             THEN IoOut(Panic, log, mem)
             ELSE LET word == BridgePeek(mem, addr.val, fail_at = i)
                      issued == Append(log, PeekOp(addr.val))
                  IN  IF word.kind = "Err" THEN IoOut(word, issued, mem)
                      ELSE read_words(mem, offset, N, i + 1,
                                      [result EXCEPT ![i + 1] = word.val],
                                      issued, fail_at, checks)

\* CsrRo::read
CsrRo_read(mem, self, fail_at, checks) ==
    read_words(mem, self.offset, self.T.n, 0, [j \in 1..self.T.n |-> 0], <<>>,
               fail_at, checks)

\* CsrRw::read
CsrRw_read(mem, self, fail_at, checks) ==
    read_words(mem, self.offset, self.T.n, 0, [j \in 1..self.T.n |-> 0], <<>>,
               fail_at, checks)

\* The loop of write(), from index i on:
\*   self.bridge.poke(self.offset + u32::try_from(4 * i).unwrap(), value[i])?
\* fail_at is the index whose poke fails (N: none does).
RECURSIVE write_words(_, _, _, _, _, _, _, _)
write_words(mem, offset, N, i, value, log, fail_at, checks) ==
    IF i >= N THEN IoOut(Ok(<<>>), log, mem)
    ELSE LET off == U32TryFromUnwrap(4 * i)
             addr == U32Add(offset, off.val, checks)
         IN  IF off.kind = "Panic" \/ addr.kind = "Panic"
             THEN IoOut(Panic, log, mem)
             ELSE LET poked == BridgePoke(mem, addr.val, value[i + 1], fail_at = i)
                      issued == Append(log, PokeOp(addr.val, value[i + 1]))
                  IN  IF poked.res.kind = "Err" THEN IoOut(poked.res, issued, mem)
                      ELSE write_words(poked.mem, offset, N, i + 1, value,
                                       issued, fail_at, checks)

\* CsrRw::write
CsrRw_write(mem, self, value, fail_at, checks) ==
    write_words(mem, self.offset, self.T.n, 0, value, <<>>, fail_at, checks)

(***************************************************************************)
(* Reads and writes through handles.  A handle is bound to any u32 offset  *)
(* (backed_by takes the offset as it is given); the offsets of the model   *)
(* are the bottom of the address space and its last word.  A call that     *)
(* panicked ends the behaviour.                                            *)
(***************************************************************************)
HandleOffsets == {0, 4, U32Modulus - 4}
RoHandles == {backed_by(CsrRoT(n), o) : n \in 1..MaxWords, o \in HandleOffsets}
RwHandles == {backed_by(CsrRwT(n), o) : n \in 1..MaxWords, o \in HandleOffsets}

NoRegisters == [r \in RealKeys |-> [present |-> FALSE, size |-> 1, kind |-> ReadOnly]]

InitIO ==
    /\ soc_info = SocInfoOf(NoRegisters, FALSE,
                            [r \in {"main_ram"} |-> MemoryRegion(0, 8, "cached")])
    /\ overflow_checks \in BOOLEAN
    /\ bridge_mem = [a \in DeviceAddrs |-> 0]
    /\ call = NoCall
    /\ ret = NoRet

Running == ret.res.kind # "Panic"

\* The values of the write just before this read, when that was a write
\* through the same handle during which the bridge did not fail.
JustWritten(self) ==
    IF call.op = "write" /\ call.self = self /\ call.fail_at = self.T.n
    THEN <<call.value>> ELSE <<>>

ReadCall(self, fail_at) ==
    [op |-> "read", self |-> self, fail_at |-> fail_at,
     after_write |-> JustWritten(self)]

\* CsrRo::<N>::backed_by(&bridge, offset).read()
CallCsrRoRead ==
    \E self \in RoHandles :
      \E fail_at \in 0..self.T.n :
        LET out == CsrRo_read(bridge_mem, self, fail_at, overflow_checks)
        IN  /\ Running
            /\ call' = ReadCall(self, fail_at)
            /\ ret' = [res |-> out.res, log |-> out.log]
            /\ bridge_mem' = out.mem
            /\ UNCHANGED <<soc_info, overflow_checks>>

\* CsrRw::<N>::backed_by(&bridge, offset).read()
CallCsrRwRead ==
    \E self \in RwHandles :
      \E fail_at \in 0..self.T.n :
        LET out == CsrRw_read(bridge_mem, self, fail_at, overflow_checks)
        IN  /\ Running
            /\ call' = ReadCall(self, fail_at)
            /\ ret' = [res |-> out.res, log |-> out.log]
            /\ bridge_mem' = out.mem
            /\ UNCHANGED <<soc_info, overflow_checks>>

\* CsrRw::<N>::backed_by(&bridge, offset).write(value)
CallCsrRwWrite ==
    \E self \in RwHandles :
      \E value \in [1..self.T.n -> Words], fail_at \in 0..self.T.n :
        LET out == CsrRw_write(bridge_mem, self, value, fail_at, overflow_checks)
        IN  /\ Running
            /\ call' = [op |-> "write", self |-> self, value |-> value,
                        fail_at |-> fail_at]
            /\ ret' = [res |-> out.res, log |-> out.log]
            /\ bridge_mem' = out.mem
            /\ UNCHANGED <<soc_info, overflow_checks>>

NextIO ==
    \/ CallCsrRoRead
    \/ CallCsrRwRead
    \/ CallCsrRwWrite

SpecIO == InitIO /\ [][NextIO]_vars

(***************************************************************************)
(* Properties of read and write.                                           *)
(***************************************************************************)
\* The last word of the handle lies in the u32 address space.
InRange(self) == self.offset + 4 * (self.T.n - 1) <= U32Max

\* The address of word i (from 0) of a handle.
WordAddr(self, i) == self.offset + 4 * i

\* The bridge calls up to the one that fails, or all N of them.
Attempted(self, fail_at) == IF fail_at < self.T.n THEN fail_at + 1 ELSE self.T.n

ReadAsSpecified(self, fail_at) ==
    /\ ret.log = [j \in 1..Attempted(self, fail_at) |-> PeekOp(WordAddr(self, j - 1))]
    /\ fail_at = self.T.n =>
           SameRes(ret.res, Ok([j \in 1..self.T.n |-> bridge_mem[WordAddr(self, j - 1)]]))
    /\ fail_at < self.T.n =>
           SameRes(ret.res, Err(BridgeError(WordAddr(self, fail_at))))

\* C7: a read through a handle of N words at offset o issues the
\* peeks of o + 4*i, i = 0..N-1, in ascending order and no poke; it returns
\* the N words peeked when no peek fails; when the peek of index i fails it
\* fails with that error, returns no words and issues no later peek.
C7_ReadSequence ==
    call.op = "read" => ReadAsSpecified(call.self, call.fail_at)

\* What holds of C7's case: the same for a handle whose last word lies in
\* the u32 address space (o + 4*(N-1) <= u32::MAX).
C7_InRange ==
    (call.op = "read" /\ InRange(call.self)) =>
        ReadAsSpecified(call.self, call.fail_at)

C7_InRange_Witness ==
    /\ call.op = "read" /\ InRange(call.self)
    /\ call.self.T.n = 2 /\ call.fail_at = 1
    /\ Len(ret.log) = 2
    /\ bridge_mem[call.self.offset] = 1
    /\ IsErr(ret.res, "BridgeError")

WriteAsSpecified(self, value, fail_at) ==
    /\ ret'.log = [j \in 1..Attempted(self, fail_at) |->
                      PokeOp(WordAddr(self, j - 1), value[j])]
    /\ fail_at < self.T.n =>
           SameRes(ret'.res, Err(BridgeError(WordAddr(self, fail_at))))
    /\ fail_at = self.T.n => ret'.res.kind = "Ok"
    /\ \A a \in DeviceAddrs :
           LET written == {i \in 0..(self.T.n - 1) : i < fail_at /\ WordAddr(self, i) = a}
               later == {i \in 0..(self.T.n - 1) : i > fail_at /\ WordAddr(self, i) = a}
           IN  /\ \A i \in written : bridge_mem'[a] = value[i + 1]
               /\ (written = {} /\ (later # {} \/ \A i \in 0..(self.T.n - 1) :
                                                     WordAddr(self, i) # a)) =>
                      bridge_mem'[a] = bridge_mem[a]

\* C8: a write through a handle of N words at offset o pokes
\* value[i] to o + 4*i, i = 0..N-1, in ascending order; when the poke of
\* index k fails it fails with that error, the words before k are on the
\* device, no later poke is attempted and the rest of the device is as it
\* was; when no poke fails all N words are written and the write succeeds.
C8_WriteSequence ==
    [][call'.op = "write" =>
          WriteAsSpecified(call'.self, call'.value, call'.fail_at)]_vars

\* What holds of C8's case: the same for a handle whose last word lies in
\* the u32 address space (o + 4*(N-1) <= u32::MAX).
C8_InRange ==
    [][(call'.op = "write" /\ InRange(call'.self)) =>
          WriteAsSpecified(call'.self, call'.value, call'.fail_at)]_vars

C8_InRange_Witness ==
    /\ call.op = "write" /\ InRange(call.self)
    /\ call.self.T.n = 2 /\ call.fail_at = 1
    /\ call.value = <<1, 1>>
    /\ IsErr(ret.res, "BridgeError")
    /\ Len(ret.log) = 2
    /\ bridge_mem[call.self.offset] = 1
    /\ bridge_mem[call.self.offset + 4] = 0

RoundTrip(self) ==
    /\ (call.op = "write" /\ call.self = self /\ call.fail_at = self.T.n) =>
           ret.res.kind = "Ok"
    /\ (call.op = "read" /\ call.self = self /\ call.after_write # <<>>
          /\ call.fail_at = self.T.n) =>
           SameRes(ret.res, Ok(call.after_write[1]))

\* C5: through a read-write handle of any N >= 1 at any offset,
\* over a bridge that keeps every poked word and does not fail, a write of
\* values succeeds and a read right after it returns exactly values.
C5_RoundTrip ==
    \A self \in RwHandles : RoundTrip(self)

\* What holds of C5's case: the same for a handle whose last word lies in
\* the u32 address space (o + 4*(N-1) <= u32::MAX).
C5_InRange ==
    \A self \in RwHandles : InRange(self) => RoundTrip(self)

C5_InRange_Witness ==
    /\ call.op = "read" /\ call.self.T.tag = "CsrRw"
    /\ call.self.T.n = 2 /\ call.self.offset = 4
    /\ call.after_write = <<(<<0, 1>>)>>
    /\ call.fail_at = 2
    /\ SameRes(ret.res, Ok(<<0, 1>>))

====
